---- MODULE Spec2Model ----
(***************************************************************************)
(* The benchmark engine of the fake-news detection API.                    *)
(*                                                                         *)
(* Two implementations of the same pipeline live in the repository and     *)
(* both are modelled; the variable impl says which one a behaviour runs:   *)
(*   "service"  : app/benchmark_service.py, BenchmarkService.run with      *)
(*                _classify_row, _parse_output, _compute_metrics and       *)
(*                _save_to_firestore;                                      *)
(*   "endpoint" : app/endpoints.py, run_benchmark_job with classify_row    *)
(*                and its inline aggregation.                              *)
(*                                                                         *)
(* Scores are kept in hundredths (0.9 is 90), rates as fractions           *)
(* [num, den].  A collaborator call (query extraction, evidence fetch,     *)
(* model call) is in flight while the row's pc names it; its outcome is    *)
(* chosen when it returns.  Each row also counts the collaborator calls     *)
(* made for it: extracts, fetches, builds, the iteration indexes of its     *)
(* model calls (calls), how many of them returned (succeeded) and the       *)
(* iteration index each entry of its lists was appended in (okIters) with   *)
(* the response that was parsed into it (resps).                            *)
(***************************************************************************)
EXTENDS Integers, Sequences, FiniteSets, TLC

\* ------------------------------------------------------------------ bounds
MaxRows == 2          \* rows of an uploaded CSV file
MaxIters == 2         \* the iterations parameter of a run
MaxCalls == 4         \* rows x iterations of one run
PoolFew == 2          \* rows of a small batch in the pool view
PoolExtra == 1        \* rows beyond fixed_cap of a large batch in the pool view

\* ------------------------------------------------------- program constants
fixed_cap == 32       \* min(32, len(df))
LabelThreshold == 4   \* int(row["label"]) >= 4
ScoreThreshold == 50  \* score >= 0.5, in hundredths
HistBins == 10        \* np.histogram(..., bins=10, range=(0.0, 1.0))

Min(a, b) == IF a <= b THEN a ELSE b

\* ------------------------------------------------------- model responses
(* A raw model response is described by what the parsers look at:          *)
(*   json    : what json.loads makes of it: "object", "container" (a list  *)
(*             or string without the member names), "scalar" (number,      *)
(*             bool, null), or "invalid" when it raises;                   *)
(*   hasScore/score     : the object's "score" member in hundredths;       *)
(*             scoreOk is FALSE when float() raises on it;                 *)
(*   hasVerdict/verdict : the object's "verdict" member as written, or     *)
(*             "nonstring" when it has no .strip();                        *)
(*   hasTrue/hasFalse   : "true" / "false" occurs in raw.lower();          *)
(*   num     : the first match of \b0(?:\.\d+)?|1(?:\.0+)?\b in            *)
(*             raw.lower() in hundredths, or NoMatch.                      *)
NoMatch == -1

Raw(name) ==
    CASE name = "score09" ->       \* {"score":0.9}
           [json |-> "object", hasScore |-> TRUE, score |-> 90, scoreOk |-> TRUE,
            hasVerdict |-> FALSE, verdict |-> "",
            hasTrue |-> FALSE, hasFalse |-> FALSE, num |-> 90]
      [] name = "verdictTrue" ->   \* {"verdict":"True"}
           [json |-> "object", hasScore |-> FALSE, score |-> 0, scoreOk |-> TRUE,
            hasVerdict |-> TRUE, verdict |-> "True",
            hasTrue |-> TRUE, hasFalse |-> FALSE, num |-> NoMatch]
      [] name = "textFalse" ->     \* The claim is false.
           [json |-> "invalid", hasScore |-> FALSE, score |-> 0, scoreOk |-> TRUE,
            hasVerdict |-> FALSE, verdict |-> "",
            hasTrue |-> FALSE, hasFalse |-> TRUE, num |-> NoMatch]
      [] name = "score85" ->       \* {"score": 85}
           [json |-> "object", hasScore |-> TRUE, score |-> 8500, scoreOk |-> TRUE,
            hasVerdict |-> FALSE, verdict |-> "",
            hasTrue |-> FALSE, hasFalse |-> FALSE, num |-> NoMatch]

\* the responses the model caller hands to a batch
BatchResponses == {"score09", "verdictTrue", "textFalse"}

\* str.strip().lower() on the verdict strings that occur
StripLower(v) ==
    CASE v = "True" -> "true"
      [] v = " true " -> "true"
      [] v = "FALSE" -> "false"
      [] OTHER -> v

\* how a block of _parse_output ends: it returns a pair or raises exc
Returned(p, sc) == [exc |-> "", pred |-> p, score |-> sc]
Raised(e) == [exc |-> e, pred |-> FALSE, score |-> 0]

\* an except-branch that scans for the number before the substring tests
HeuristicNumberFirst(raw) ==
    IF raw.num # NoMatch
    THEN Returned(raw.num >= ScoreThreshold, raw.num)
    ELSE IF raw.hasTrue /\ ~raw.hasFalse THEN Returned(TRUE, 100)
    ELSE Returned(FALSE, 0)

\* the except-branch of _parse_output: substring tests, then the number scan
Heuristic(raw) ==
    IF raw.hasTrue /\ ~raw.hasFalse THEN Returned(TRUE, 100)
    ELSE IF raw.hasFalse /\ ~raw.hasTrue THEN Returned(FALSE, 0)
    ELSE IF raw.num # NoMatch
         THEN Returned(raw.num >= ScoreThreshold, raw.num)
         ELSE Returned(FALSE, 0)

\* the try block of _parse_output
TryJson(raw) ==
    IF raw.json = "invalid" THEN Raised("JSONDecodeError")     \* json.loads
    ELSE IF raw.json # "object" THEN Raised("AttributeError")  \* obj.get
    ELSE IF raw.hasScore /\ ~raw.scoreOk THEN Raised("ValueError")  \* float()
    ELSE IF raw.hasScore
         THEN Returned(raw.score >= ScoreThreshold, raw.score)
    ELSE IF raw.hasVerdict /\ raw.verdict = "nonstring"
         THEN Raised("AttributeError")                         \* .strip()
    ELSE Returned(raw.hasVerdict /\ StripLower(raw.verdict) = "true",
                  0)                                \* obj.get("score", 0.0)

\* an except clause that names the decoder's error only
CaughtDecodeErrorOnly(exc) == exc = "JSONDecodeError"

\* except Exception
Caught(exc) == TRUE

\* BenchmarkService._parse_output
_parse_output(raw) ==
    LET t == TryJson(raw)
    IN  IF t.exc # "" /\ Caught(t.exc) THEN Heuristic(raw) ELSE t

\* the parse block of endpoints.classify_row
EndpointHeuristic(raw, pred_bin) ==
    IF raw.hasTrue /\ ~raw.hasFalse THEN [pred |-> TRUE, sc |-> NoMatch]
    ELSE IF raw.hasFalse /\ ~raw.hasTrue THEN [pred |-> FALSE, sc |-> NoMatch]
    ELSE IF raw.num # NoMatch
         THEN [pred |-> raw.num >= ScoreThreshold, sc |-> raw.num]
         ELSE [pred |-> pred_bin, sc |-> NoMatch]

EndpointParseRaw(raw) ==
    IF raw.json \in {"invalid", "scalar"} THEN EndpointHeuristic(raw, FALSE)
    ELSE IF raw.json = "container" THEN [pred |-> FALSE, sc |-> NoMatch]
    ELSE IF raw.hasVerdict /\ raw.verdict = "nonstring"
         THEN EndpointHeuristic(raw, FALSE)
    ELSE LET v == raw.hasVerdict /\ StripLower(raw.verdict) = "true"
         IN  IF raw.hasScore /\ ~raw.scoreOk
                  THEN EndpointHeuristic(raw, v)
             ELSE IF raw.hasScore
                  THEN [pred |-> raw.score >= ScoreThreshold, sc |-> raw.score]
                  ELSE [pred |-> v, sc |-> NoMatch]

endpoint_parse(raw) ==
    LET p == EndpointParseRaw(raw)
    IN  [pred |-> p.pred,
         score |-> IF p.sc = NoMatch
                   THEN (IF p.pred THEN 100 ELSE 0)   \* pred_sc is None
                   ELSE p.sc]

ParseFor(im, raw) ==
    IF im = "service" THEN _parse_output(raw) ELSE endpoint_parse(raw)

\* ------------------------------------------------------------------ state
VARIABLES
    impl,          \* "service" or "endpoint": which implementation runs
    serpSettable,  \* the injected serp collaborator has a set_model method
    llm,           \* LLMManager: [extract_model, classify_model]
    serp,          \* SerpAgent: [research_model, summary_model]
    runPc,         \* position of the thread executing run / run_benchmark_job
    runError,      \* the exception that left run, "" when none
    use_external, output, iterations,   \* parameters of the run
    df,            \* the cleaned data frame: a sequence of rows
    rows,          \* per row of df: the state of its _classify_row future
    order,         \* rows in the order their futures completed
    results,       \* the list run collects from as_completed
    summary,       \* <<>> or <<the summary>>
    store,         \* the document store, as far as this job is concerned
    csvRemoved,    \* os.remove(csv_path) was executed
    callModels,    \* the model names the run's LLM calls were made with
    otherRun,      \* a second run on the same classifier has started
    pool,          \* the worker pool of a large batch, rows counted by phase
    raw,           \* <<>> or <<the response handed to the output parser>>
    parsed,        \* <<>> or <<what the parser made of it>>
    variant,       \* the prompt_variant handed to build_messages
    msgs,          \* <<>> or <<what build_messages returned or raised>>
    curve,         \* <<>> or <<the pairs PlotService fed to the curves>>
    seen           \* <<>> or <<what a get_benchmark request has read>>

vars == <<impl, serpSettable, llm, serp, runPc, runError, use_external, output,
          iterations, df, rows, order, results, summary, store,
          csvRemoved, callModels, otherRun, pool, raw, parsed, variant, msgs,
          curve, seen>>

rowVars == <<rows, order, callModels>>
paramVars == <<use_external, output, iterations, df>>
deployVars == <<impl, serpSettable>>
parseVars == <<raw, parsed>>
sideVars == <<variant, msgs, curve, seen>>
fnVars == <<parseVars, sideVars>>
endVars == <<results, summary, store, csvRemoved>>

\* os.getenv("LLM_*_MODEL", "gpt-4o")
EnvModel == "gpt-4o"
RunModel == "model-a"      \* the model passed to the run under study
OtherModel == "model-b"    \* the model passed to a second run

OutputTypes == {"binary", "score", "detailed"}

\* the output types LLMManager.build_messages has a prompt for, in either
\* variant and with or without evidence; it raises ValueError for any other
SupportedOutputs == {"binary", "score", "binary_expl", "score_expl"}

(* A row of the uploaded CSV: its statement is blank or not, its label is   *)
(* a number on the truth scale or missing (NaN).                            *)
CsvRows ==
    [blank : {FALSE}, nan : {FALSE}, label : {LabelThreshold - 1, LabelThreshold}]
    \cup {[blank |-> TRUE, nan |-> FALSE, label |-> LabelThreshold],
          [blank |-> FALSE, nan |-> TRUE, label |-> 0]}

CsvFiles == UNION {[1..n -> CsvRows] : n \in 0..MaxRows}

\* the runs the model explores: at most MaxCalls model calls in one batch
Bounded(csv, iters) == Len(csv) * iters <= MaxCalls

RECURSIVE SelectRows(_, _)
SelectRows(csv, keep) ==
    IF csv = <<>> THEN <<>>
    ELSE IF keep[Len(csv)]
         THEN Append(SelectRows(SubSeq(csv, 1, Len(csv) - 1), keep), csv[Len(csv)])
         ELSE SelectRows(SubSeq(csv, 1, Len(csv) - 1), keep)

\* run: dropna(subset=["statement", "label"]) then the blank-statement filter
CleanService(csv) ==
    SelectRows(csv, [k \in 1..Len(csv) |-> ~csv[k].nan /\ ~csv[k].blank])

\* run_benchmark_job: dropna(how='all') keeps a row that has a statement
CleanEndpoint(csv) ==
    SelectRows(csv, [k \in 1..Len(csv) |-> ~csv[k].blank])

\* a future that has not been picked up by a worker
QueuedRow ==
    [pc |-> "queued", gold |-> FALSE, articles |-> "unset", i |-> 0,
     preds |-> <<>>, scores |-> <<>>, corrects |-> <<>>,
     extracts |-> 0, fetches |-> 0, builds |-> 0, calls |-> <<>>,
     succeeded |-> 0, okIters |-> <<>>, resps |-> <<>>, ret |-> "pending"]

N == Len(df)
RowIds == 1..N
InFlight == {r \in RowIds : rows[r].pc \in {"extract", "fetch", "classify"}}

\* a pool with one worker per row, however many rows there are
max_workers_uncapped(n) == n

\* ThreadPoolExecutor(max_workers=min(32, len(df)))
max_workers(n) == Min(fixed_cap, n)

\* the pool before a batch is submitted
IdlePool ==
    [n |-> 0, iters |-> 0, ext |-> FALSE, queued |-> 0, extract |-> 0,
     fetch |-> 0, classify |-> <<>>, done |-> 0, calls |-> 0]

Init ==
    /\ pool = IdlePool
    /\ raw = <<>> /\ parsed = <<>>
    /\ variant = "" /\ msgs = <<>> /\ curve = <<>> /\ seen = <<>>
    /\ impl \in {"service", "endpoint"}
    /\ serpSettable \in BOOLEAN
    /\ (impl = "endpoint" => ~serpSettable)    \* endpoints: serp = SerpAgent()
    /\ llm = [extract_model |-> EnvModel, classify_model |-> EnvModel]
    /\ serp = [research_model |-> EnvModel, summary_model |-> EnvModel]
    /\ runPc = "idle"
    /\ runError = ""
    /\ use_external = FALSE /\ output = "" /\ iterations = 0
    /\ df = <<>>
    /\ rows = <<>>
    /\ order = <<>>
    /\ results = <<>>
    /\ summary = <<>>
    /\ store = [doc |-> <<>>, results |-> <<>>]
    /\ csvRemoved = FALSE
    /\ callModels = {}
    /\ otherRun = FALSE

\* ------------------------------------------------------- the run's thread
\* BenchmarkService.run up to the submission of every row to the pool
RunStartService ==
    /\ impl = "service" /\ runPc = "idle"
    /\ llm' = [extract_model |-> RunModel, classify_model |-> RunModel]
    /\ IF ~serpSettable
       THEN \* self.classifier.serp.set_model: SerpAgent has no such method
            /\ runPc' = "raised" /\ runError' = "AttributeError"
            /\ UNCHANGED <<serp, paramVars, rows>>
       ELSE \E ext \in BOOLEAN, out \in OutputTypes, iters \in 1..MaxIters,
               csv \in CsvFiles :
              /\ Bounded(csv, iters)
              /\ serp' = [research_model |-> RunModel, summary_model |-> RunModel]
              /\ use_external' = ext /\ output' = out /\ iterations' = iters
              /\ df' = CleanService(csv)
              /\ IF df' = <<>>
                 THEN runPc' = "returned" /\ rows' = <<>>     \* df.empty
                 ELSE runPc' = "pool" /\ rows' = [r \in 1..Len(df') |-> QueuedRow]
              /\ runError' = ""
    /\ UNCHANGED <<deployVars, fnVars, pool, order, callModels, endVars, otherRun>>

\* endpoints.run_benchmark_job up to the submission of every row
RunStartEndpoint ==
    /\ impl = "endpoint" /\ runPc = "idle"
    /\ \E ext \in BOOLEAN, out \in OutputTypes, iters \in 1..MaxIters,
          csv \in CsvFiles, readable \in BOOLEAN :
         /\ Bounded(csv, iters)
         /\ use_external' = ext /\ output' = out /\ iterations' = iters
         /\ IF ~readable
            THEN /\ df' = <<>> /\ rows' = <<>>               \* pd.read_csv raised
                 /\ runPc' = "returned" /\ runError' = ""
            ELSE /\ df' = CleanEndpoint(csv)
                 /\ IF max_workers(Len(df')) = 0
                    THEN \* ThreadPoolExecutor(max_workers=0)
                         /\ runPc' = "raised" /\ runError' = "ValueError"
                         /\ rows' = <<>>
                    ELSE /\ runPc' = "pool" /\ runError' = ""
                         /\ rows' = [r \in 1..Len(df') |-> QueuedRow]
    /\ UNCHANGED <<deployVars, fnVars, pool, llm, serp, order, callModels, endVars, otherRun>>

\* a second BenchmarkService.run on the same classifier reaches lines 168-175
OtherRunStart ==
    /\ impl = "service" /\ serpSettable /\ ~otherRun
    /\ runPc = "pool"
    /\ otherRun' = TRUE
    /\ llm' = [extract_model |-> OtherModel, classify_model |-> OtherModel]
    /\ serp' = [research_model |-> OtherModel, summary_model |-> OtherModel]
    /\ UNCHANGED <<deployVars, fnVars, pool, runPc, runError, paramVars, rowVars, endVars>>

\* ------------------------------------------------------------ the workers
Finish(r, rec) ==
    /\ rows' = [rows EXCEPT ![r] = rec]
    /\ order' = Append(order, r)

\* LLMManager.classify_once: the model is read when the call is made
IssueCall(row, k) ==
    [row EXCEPT !.pc = "classify", !.i = k, !.calls = Append(@, k)]

\* build_messages, then the head of the iteration loop; build_messages is
\* called outside any try, so its ValueError leaves the row's future
BuildAndLoop(r, row) ==
    LET built == [row EXCEPT !.builds = @ + 1]
    IN  IF output \notin SupportedOutputs
        THEN /\ Finish(r, [built EXCEPT !.pc = "done", !.ret = "raised"])
             /\ UNCHANGED callModels
        ELSE IF iterations > 0
        THEN /\ rows' = [rows EXCEPT ![r] = IssueCall(built, 0)]
             /\ callModels' = callModels \cup {llm.classify_model}
             /\ UNCHANGED order
        ELSE /\ Finish(r, [built EXCEPT !.pc = "done", !.ret = "result"])
             /\ UNCHANGED callModels

\* a worker thread takes the next queued row and starts _classify_row
\* a threshold that leaves the label 4 on the false side
GoldBinaryAbove(label) == label > LabelThreshold

\* gold = int(row["label"]) >= 4, the first statement of both row classifiers
GoldBinary(label) == label >= LabelThreshold

TakeRow(r) ==
    /\ runPc = "pool"
    /\ rows[r].pc = "queued"
    /\ \A q \in RowIds : q < r => rows[q].pc # "queued"       \* FIFO work queue
    /\ Cardinality(InFlight) < max_workers(N)
    /\ IF df[r].nan
       THEN \* int(row['label']) raises on NaN, outside any try
            /\ Finish(r, [rows[r] EXCEPT !.pc = "done", !.ret = "raised"])
            /\ UNCHANGED callModels
       ELSE /\ rows' = [rows EXCEPT ![r] =
                          [@ EXCEPT !.pc = "extract",
                                    !.gold = GoldBinary(df[r].label),
                                    !.extracts = @ + 1]]
            /\ callModels' = callModels \cup {llm.extract_model}
            /\ UNCHANGED order
    /\ UNCHANGED <<deployVars, fnVars, pool, llm, serp, runPc, runError, paramVars, endVars,
                   otherRun>>

\* an extraction that is tried a second time before the row is given up
ExtractFailsRetry(r) ==
    IF rows[r].extracts < 2
    THEN /\ rows' = [rows EXCEPT ![r] = [@ EXCEPT !.extracts = @ + 1]]
         /\ UNCHANGED <<order, callModels>>
    ELSE /\ Finish(r, [rows[r] EXCEPT !.pc = "done", !.ret = "none"])
         /\ UNCHANGED callModels

\* extract_query raised: log, return None
ExtractFails(r) ==
    /\ Finish(r, [rows[r] EXCEPT !.pc = "done", !.ret = "none"])
    /\ UNCHANGED callModels

\* the query extraction returns or raises
ExtractReturn(r) ==
    /\ runPc = "pool"
    /\ rows[r].pc = "extract"
    /\ \E ok \in BOOLEAN :
         IF ~ok
         THEN ExtractFails(r)
         ELSE IF use_external
         THEN /\ rows' = [rows EXCEPT ![r] =
                            [@ EXCEPT !.pc = "fetch", !.fetches = @ + 1]]
              /\ UNCHANGED <<order, callModels>>
         ELSE BuildAndLoop(r, [rows[r] EXCEPT !.articles = ""])
    /\ UNCHANGED <<deployVars, fnVars, pool, llm, serp, runPc, runError, paramVars, endVars,
                   otherRun>>

\* serp.search_news returns or raises
FetchReturn(r) ==
    /\ runPc = "pool"
    /\ rows[r].pc = "fetch"
    /\ \E ok \in BOOLEAN :
         IF ok THEN BuildAndLoop(r, [rows[r] EXCEPT !.articles = "block"])
         ELSE IF impl = "service"
         THEN \* fetch_articles is called outside any try: the future raises
              /\ Finish(r, [rows[r] EXCEPT !.pc = "done", !.ret = "raised"])
              /\ UNCHANGED callModels
         ELSE \* classify_row logs and goes on with articles = ""
              BuildAndLoop(r, [rows[r] EXCEPT !.articles = ""])
    /\ UNCHANGED <<deployVars, fnVars, pool, llm, serp, runPc, runError, paramVars, endVars,
                   otherRun>>

\* an iteration that records a score only when it is not the default 0.0
AppendedSkipsZeroScore(row, p) ==
    [row EXCEPT !.preds = Append(@, p.pred),
                !.scores = IF p.score = 0 THEN @ ELSE Append(@, p.score),
                !.corrects = Append(@, p.pred = row.gold)]

\* what one iteration appends after a successful model call
Appended(row, p) ==
    [row EXCEPT !.preds = Append(@, p.pred),
                !.scores = Append(@, p.score),
                !.corrects = Append(@, p.pred = row.gold)]

\* the range(iterations) loop: the next index, or the return statement
NextIteration(r, row) ==
    IF row.i + 1 < iterations
    THEN /\ rows' = [rows EXCEPT ![r] = IssueCall(row, row.i + 1)]
         /\ callModels' = callModels \cup {llm.classify_model}
         /\ UNCHANGED order
    ELSE /\ Finish(r, [row EXCEPT !.pc = "done", !.ret = "result"])
         /\ UNCHANGED callModels

\* the model call returned resp: strip, parse, append, next iteration
ClassifySucceeds(r, resp) ==
    NextIteration(r, [Appended(rows[r], ParseFor(impl, Raw(resp)))
                        EXCEPT !.succeeded = @ + 1,
                               !.okIters = Append(@, rows[r].i),
                               !.resps = Append(@, resp)])

\* a loop that gives the row up at its first failed model call
ClassifyFailsBreak(r) ==
    /\ Finish(r, [rows[r] EXCEPT !.pc = "done", !.ret = "result"])
    /\ UNCHANGED callModels

\* the model call raised: log and continue with the next iteration
ClassifyFails(r) == NextIteration(r, rows[r])

\* classify_once returns a response or raises
ClassifyReturn(r) ==
    /\ runPc = "pool"
    /\ rows[r].pc = "classify"
    /\ \/ ClassifyFails(r)
       \/ \E resp \in BatchResponses : ClassifySucceeds(r, resp)
    /\ UNCHANGED <<deployVars, fnVars, pool, llm, serp, runPc, runError, paramVars, endVars,
                   otherRun>>

\* ---------------------------------------------------------------- metrics
\* n / d, and 0.0 where the code guards a zero denominator
Frac(n, d) == IF d = 0 THEN [num |-> 0, den |-> 1] ELSE [num |-> n, den |-> d]

SameFrac(a, b) == a.num * b.den = b.num * a.den

Front(seq) == SubSeq(seq, 1, Len(seq) - 1)
Last(seq) == seq[Len(seq)]

CountTrue(seq) == Cardinality({k \in 1..Len(seq) : seq[k]})

\* [s for r in results for s in r["scores"]]
RECURSIVE FlatScores(_)
FlatScores(res) ==
    IF res = <<>> THEN <<>> ELSE FlatScores(Front(res)) \o Last(res).scores

\* [r["gold_binary"] for r in results for _ in r["scores"]]
RECURSIVE FlatGold(_)
FlatGold(res) ==
    IF res = <<>> THEN <<>>
    ELSE FlatGold(Front(res))
         \o [k \in 1..Len(Last(res).scores) |-> Last(res).gold_binary]

\* a vote that a tie resolves to true
MajorityVoteTieTrue(r) == 2 * CountTrue(r.predictions) >= Len(r.predictions)

\* sum(r["predictions"]) > len(r["predictions"]) / 2
MajorityVote(r) == 2 * CountTrue(r.predictions) > Len(r.predictions)

\* the (y_true, y_pred) lists of _compute_metrics under either policy
YTrue(res, output_type) ==
    IF output_type \in {"score", "detailed"}
    THEN FlatGold(res)
    ELSE [k \in 1..Len(res) |-> res[k].gold_binary]

YPred(res, output_type) ==
    IF output_type \in {"score", "detailed"}
    THEN [k \in 1..Len(FlatScores(res)) |-> FlatScores(res)[k] >= ScoreThreshold]
    ELSE [k \in 1..Len(res) |-> MajorityVote(res[k])]

\* sklearn confusion_matrix(y_true, y_pred, labels=[False, True])[g, p]
Cell(y_true, y_pred, g, p) ==
    Cardinality({k \in 1..Len(y_true) : y_true[k] = g /\ y_pred[k] = p})

\* the matrix read with the same cell twice
ConfusionMatrixSameCell(y_true, y_pred) ==
    [TP |-> Cell(y_true, y_pred, FALSE, FALSE),
     FN |-> Cell(y_true, y_pred, FALSE, FALSE),
     FP |-> Cell(y_true, y_pred, TRUE, FALSE),
     TN |-> Cell(y_true, y_pred, TRUE, TRUE)]

\* the matrix read the usual way round, "true" as the positive class
ConfusionMatrixPositiveTrue(y_true, y_pred) ==
    [TP |-> Cell(y_true, y_pred, TRUE, TRUE),
     FN |-> Cell(y_true, y_pred, TRUE, FALSE),
     FP |-> Cell(y_true, y_pred, FALSE, TRUE),
     TN |-> Cell(y_true, y_pred, FALSE, FALSE)]

\* cm[0,0], cm[0,1], cm[1,0], cm[1,1] read as TP, FN, FP, TN
ConfusionMatrix(y_true, y_pred) ==
    [TP |-> Cell(y_true, y_pred, FALSE, FALSE),
     FN |-> Cell(y_true, y_pred, FALSE, TRUE),
     FP |-> Cell(y_true, y_pred, TRUE, FALSE),
     TN |-> Cell(y_true, y_pred, TRUE, TRUE)]

\* len(y_true)
TotalPredictions(y_true, y_pred) == Len(y_true)

\* np.histogram(all_scores, bins=10, range=(0.0, 1.0)): a value outside the
\* range is not counted, the last bin is closed on the right
HistBin(sc) == IF sc = 100 THEN HistBins ELSE (sc \div (100 \div HistBins)) + 1

Histogram(all_scores) ==
    [b \in 1..HistBins |->
        Cardinality({k \in 1..Len(all_scores) :
                       /\ all_scores[k] >= 0 /\ all_scores[k] <= 100
                       /\ HistBin(all_scores[k]) = b})]

\* the enumerate loop over r["correctness"]: slot i counts list position i
IterationAccuracy(res, iters) ==
    [i \in 1..iters |->
        Frac(Cardinality({k \in 1..Len(res) :
                            Len(res[k].correctness) >= i /\ res[k].correctness[i]}),
             Cardinality({k \in 1..Len(res) : Len(res[k].correctness) >= i}))]

\* BenchmarkService._compute_metrics (duration_seconds is left out)
_compute_metrics(res, iters, output_type) ==
    LET y_true == YTrue(res, output_type)
        y_pred == YPred(res, output_type)
        cm == ConfusionMatrix(y_true, y_pred)
        total == TotalPredictions(y_true, y_pred)
    IN  [accuracy |->
             Frac(Cardinality({k \in 1..Len(y_true) : y_true[k] = y_pred[k]}), total),
         precision |-> Frac(cm.TP, cm.TP + cm.FP),       \* pos_label=False
         recall |-> Frac(cm.TP, cm.TP + cm.FN),
         f1_score |-> Frac(2 * cm.TP, 2 * cm.TP + cm.FP + cm.FN),
         confusion_matrix |-> cm,
         score_histogram |-> Histogram(FlatScores(res)),
         iteration_accuracy |-> IterationAccuracy(res, iters),
         total_predictions |-> total]

\* [p for r in results for p in r["predictions"]] of run_benchmark_job
RECURSIVE FlatPreds(_)
FlatPreds(res) ==
    IF res = <<>> THEN <<>>
    ELSE FlatPreds(Front(res))
         \o SubSeq(Last(res).predictions, 1, Len(Last(res).scores))

\* confusion_matrix(all_gold, all_pred).ravel() unpacked into four names:
\* without labels= the matrix is 2x2 only when both classes occur, and the
\* unpacking raises into the except branch otherwise
EndpointConfusion(all_gold, all_pred) ==
    LET both == \E j, k \in 1..Len(all_gold) :
                   \/ all_gold[j] # all_gold[k]
                   \/ all_pred[j] # all_pred[k]
                   \/ all_gold[j] # all_pred[k]
    IN  IF both
        THEN [TN |-> Cell(all_gold, all_pred, FALSE, FALSE),
              FP |-> Cell(all_gold, all_pred, FALSE, TRUE),
              FN |-> Cell(all_gold, all_pred, TRUE, FALSE),
              TP |-> Cell(all_gold, all_pred, TRUE, TRUE)]
        ELSE [TN |-> 0, FP |-> 0, FN |-> 0, TP |-> 0]

\* step (3) of endpoints.run_benchmark_job
EndpointMetrics(res, iters) ==
    LET all_gold == FlatGold(res)
        all_pred == FlatPreds(res)
        cm == EndpointConfusion(all_gold, all_pred)
        tp == Cell(all_gold, all_pred, TRUE, TRUE)
        fp == Cell(all_gold, all_pred, FALSE, TRUE)
        fn == Cell(all_gold, all_pred, TRUE, FALSE)
        correct == Cardinality({k \in 1..Len(all_gold) : all_gold[k] = all_pred[k]})
    IN  [accuracy |-> Frac(correct, Len(all_gold)),
         precision |-> Frac(tp, tp + fp),
         recall |-> Frac(tp, tp + fn),
         f1_score |-> Frac(2 * tp, 2 * tp + fp + fn),
         confusion_matrix |-> cm,
         score_histogram |-> Histogram(FlatScores(res)),
         iteration_accuracy |-> IterationAccuracy(res, iters),
         total_predictions |-> Len(all_gold)]

SummaryFor(im, res, iters, output_type) ==
    IF im = "service" THEN _compute_metrics(res, iters, output_type)
    ELSE EndpointMetrics(res, iters)

\* -------------------------------------------- collecting, saving, cleanup
\* the dict a finished _classify_row returned
RowResult(r) ==
    [statement |-> r, gold_binary |-> rows[r].gold,
     predictions |-> rows[r].preds, scores |-> rows[r].scores,
     correctness |-> rows[r].corrects]

\* a collection that keeps the futures that returned None as well
CollectedUnfiltered(ord) == [k \in 1..Len(ord) |-> RowResult(ord[k])]

\* the futures' results in completion order, None left out
RECURSIVE Collected(_)
Collected(ord) ==
    IF ord = <<>> THEN <<>>
    ELSE IF rows[Last(ord)].ret = "result"
         THEN Append(Collected(Front(ord)), RowResult(Last(ord)))
         ELSE Collected(Front(ord))

AllDone == \A r \in RowIds : rows[r].pc = "done"

(* The as_completed loop and the exit of the with block, then the metrics. *)
(* The with block joins every worker, so the run's thread gets past it     *)
(* only when every future is done.  In run, f.result() re-raises a         *)
(* future's exception; run_benchmark_job catches and logs it.              *)
Collect ==
    /\ runPc = "pool" /\ AllDone
    /\ IF impl = "service" /\ \E r \in RowIds : rows[r].ret = "raised"
       THEN /\ runPc' = "raised" /\ runError' = "RowError"
            /\ UNCHANGED <<results, summary>>
       ELSE /\ runPc' = "computed"
            /\ results' = Collected(order)
            /\ summary' = <<SummaryFor(impl, results', iterations, output)>>
            /\ UNCHANGED runError
    /\ UNCHANGED <<deployVars, fnVars, pool, llm, serp, paramVars, rowVars, store, csvRemoved,
                   otherRun>>

\* the params document written beside the metrics
Params ==
    [extract_model |-> llm.extract_model, classify_model |-> llm.classify_model,
     research_model |-> serp.research_model, summary_model |-> serp.summary_model,
     use_external_info |-> use_external, output_type |-> output,
     iterations |-> iterations]

\* doc.set({timestamp, params, metrics}); a store error leaves run in the
\* service and is logged in run_benchmark_job, which goes on to the cleanup
SaveDoc ==
    /\ runPc = "computed"
    /\ \E ok \in BOOLEAN :
         IF ok
         THEN /\ store' = [store EXCEPT !.doc = <<[params |-> Params,
                                                   metrics |-> summary[1]]>>]
              /\ runPc' = "docSet"
              /\ UNCHANGED <<runError, csvRemoved>>
         ELSE IF impl = "service"
         THEN /\ runPc' = "raised" /\ runError' = "StoreError"
              /\ UNCHANGED <<store, csvRemoved>>
         ELSE /\ runPc' = "done" /\ csvRemoved' = TRUE
              /\ UNCHANGED <<store, runError>>
    /\ UNCHANGED <<deployVars, fnVars, pool, llm, serp, paramVars, rowVars, results, summary,
                   otherRun>>

\* batch.set per result and batch.commit(), then os.remove(csv_path)
SaveBatch ==
    /\ runPc = "docSet"
    /\ \E ok \in BOOLEAN :
         IF ok
         THEN /\ store' = [store EXCEPT !.results = results]
              /\ runPc' = "done" /\ csvRemoved' = TRUE
              /\ UNCHANGED runError
         ELSE IF impl = "service"
         THEN /\ runPc' = "raised" /\ runError' = "StoreError"
              /\ UNCHANGED <<store, csvRemoved>>
         ELSE /\ runPc' = "done" /\ csvRemoved' = TRUE
              /\ UNCHANGED <<store, runError>>
    /\ UNCHANGED <<deployVars, fnVars, pool, llm, serp, paramVars, rowVars, results, summary,
                   otherRun>>

Next ==
    \/ RunStartService
    \/ RunStartEndpoint
    \/ \E r \in RowIds : TakeRow(r)
    \/ \E r \in RowIds : ExtractReturn(r)
    \/ \E r \in RowIds : FetchReturn(r)
    \/ \E r \in RowIds : ClassifyReturn(r)
    \/ Collect
    \/ SaveDoc
    \/ SaveBatch

Spec == Init /\ [][Next]_vars

\* one run, and a second run that starts on the same classifier meanwhile
NextRace == Next \/ OtherRunStart

SpecRace == Init /\ [][NextRace]_vars

\* ------------------------------------------------ the pool of a large batch
(* The same workers, with the rows of the batch counted by the phase they  *)
(* are in instead of told apart: pool.queued rows wait in the executor's   *)
(* queue, pool.extract, pool.fetch and pool.classify[i + 1] rows are held  *)
(* by a worker whose extraction, evidence fetch or model call of           *)
(* iteration i is outstanding, pool.done rows have returned.  pool.calls   *)
(* counts the outbound calls that have been made and have not returned.    *)
PoolSizes == {PoolFew, fixed_cap + PoolExtra}
PoolIterations == {1, 2}

SumSeq(seq) ==
    LET RECURSIVE Sum(_)
        Sum(k) == IF k = 0 THEN 0 ELSE seq[k] + Sum(k - 1)
    IN  Sum(Len(seq))

PoolBusy == pool.extract + pool.fetch + SumSeq(pool.classify)

InitPool ==
    /\ Init
    /\ impl = "service" /\ serpSettable

\* with ThreadPoolExecutor(...): every row of df is submitted
PoolSubmit ==
    /\ pool = IdlePool
    /\ \E n \in PoolSizes, iters \in PoolIterations, ext \in BOOLEAN :
         pool' = [IdlePool EXCEPT !.n = n, !.iters = iters, !.ext = ext,
                                  !.queued = n,
                                  !.classify = [i \in 1..iters |-> 0]]
    /\ UNCHANGED <<deployVars, fnVars, llm, serp, runPc, runError, paramVars, rowVars,
                   endVars, otherRun>>

\* the row leaves the pool's bookkeeping for phase "to", one call is out
PoolEnter(p, to) ==
    IF to = "extract" THEN [p EXCEPT !.extract = @ + 1, !.calls = @ + 1]
    ELSE IF to = "fetch" THEN [p EXCEPT !.fetch = @ + 1, !.calls = @ + 1]
    ELSE IF to = "classify1" THEN [p EXCEPT !.classify[1] = @ + 1, !.calls = @ + 1]
    ELSE [p EXCEPT !.done = @ + 1]

\* a worker takes a queued row and calls extract_query
PoolTake ==
    /\ pool.queued > 0
    /\ PoolBusy < max_workers(pool.n)
    /\ pool' = PoolEnter([pool EXCEPT !.queued = @ - 1], "extract")
    /\ UNCHANGED <<deployVars, fnVars, llm, serp, runPc, runError, paramVars, rowVars,
                   endVars, otherRun>>

PoolExtractReturn ==
    /\ pool.extract > 0
    /\ \E ok \in BOOLEAN :
         pool' = PoolEnter([pool EXCEPT !.extract = @ - 1, !.calls = @ - 1],
                           IF ~ok THEN "done"
                           ELSE IF pool.ext THEN "fetch" ELSE "classify1")
    /\ UNCHANGED <<deployVars, fnVars, llm, serp, runPc, runError, paramVars, rowVars,
                   endVars, otherRun>>

PoolFetchReturn ==
    /\ pool.fetch > 0
    /\ \E ok \in BOOLEAN :
         pool' = PoolEnter([pool EXCEPT !.fetch = @ - 1, !.calls = @ - 1],
                           IF ok THEN "classify1" ELSE "done")
    /\ UNCHANGED <<deployVars, fnVars, llm, serp, runPc, runError, paramVars, rowVars,
                   endVars, otherRun>>

\* the model call of iteration i - 1 returns or raises: the loop goes on to
\* the next call, or the row returns
PoolClassifyReturn(i) ==
    /\ pool.classify[i] > 0
    /\ pool' = IF i < pool.iters
               THEN [pool EXCEPT !.classify[i] = @ - 1, !.classify[i + 1] = @ + 1]
               ELSE [pool EXCEPT !.classify[i] = @ - 1, !.calls = @ - 1,
                                 !.done = @ + 1]
    /\ UNCHANGED <<deployVars, fnVars, llm, serp, runPc, runError, paramVars, rowVars,
                   endVars, otherRun>>

NextPool ==
    \/ PoolSubmit
    \/ PoolTake
    \/ PoolExtractReturn
    \/ PoolFetchReturn
    \/ \E i \in 1..Len(pool.classify) : PoolClassifyReturn(i)

SpecPool == InitPool /\ [][NextPool]_vars

\* ------------------------------------------------- the aggregator on its own
(* _compute_metrics as a function of the list run hands it: every list of   *)
(* RowResults whose attempts are parses of model responses, the responses   *)
(* of a batch and one whose score is written on a 0..100 scale.             *)
MetricResponses == BatchResponses \cup {"score85"}
MetricPolicies == {"binary", "score"}

\* the dict _classify_row returns for gold g and the responses att
ResultOf(k, g, att) ==
    [statement |-> k, gold_binary |-> g,
     predictions |-> [j \in 1..Len(att) |-> _parse_output(Raw(att[j])).pred],
     scores |-> [j \in 1..Len(att) |-> _parse_output(Raw(att[j])).score],
     correctness |-> [j \in 1..Len(att) |-> _parse_output(Raw(att[j])).pred = g]]

Attempts(iters) == UNION {[1..n -> MetricResponses] : n \in 0..iters}

ResultLists(iters) ==
    UNION {{[k \in 1..n |-> ResultOf(k, g[k], att[k])] :
              g \in [1..n -> BOOLEAN], att \in [1..n -> Attempts(iters)]} :
           n \in {m \in 0..MaxRows : m * iters <= MaxCalls}}

InitMetrics ==
    /\ pool = IdlePool
    /\ raw = <<>> /\ parsed = <<>>
    /\ variant = "" /\ msgs = <<>> /\ curve = <<>> /\ seen = <<>>
    /\ impl = "service" /\ serpSettable = TRUE
    /\ llm = [extract_model |-> RunModel, classify_model |-> RunModel]
    /\ serp = [research_model |-> RunModel, summary_model |-> RunModel]
    /\ runPc = "metrics" /\ runError = ""
    /\ use_external = FALSE
    /\ output \in MetricPolicies
    /\ iterations \in 1..MaxIters
    /\ results \in ResultLists(iterations)
    /\ df = <<>> /\ rows = <<>> /\ order = <<>>
    /\ summary = <<>>
    /\ store = [doc |-> <<>>, results |-> <<>>]
    /\ csvRemoved = FALSE
    /\ callModels = {RunModel}
    /\ otherRun = FALSE

\* metrics = self._compute_metrics(results, iterations, output)
ComputeMetrics ==
    /\ runPc = "metrics"
    /\ summary' = <<_compute_metrics(results, iterations, output)>>
    /\ runPc' = "computed"
    /\ UNCHANGED <<deployVars, fnVars, pool, llm, serp, runError, paramVars, rowVars,
                   results, store, csvRemoved, otherRun>>

NextMetrics == ComputeMetrics

SpecMetrics == InitMetrics /\ [][NextMetrics]_vars

\* --------------------------------------------------- the parsers on their own
(* Both parsers as functions of the response text.  The responses are the   *)
(* descriptions a text can have: what json.loads makes of it, the score     *)
(* and verdict members of an object, and what the substring tests and the   *)
(* number scan find in the lowercased text.                                 *)
JsonKinds == {"object", "container", "scalar", "invalid"}
ScoreValues == {0, 20, 50, 90, 100, 8500}
VerdictValues == {"True", " true ", "false", "FALSE", "maybe", "nonstring"}
NumValues == {NoMatch, 0, 30, 90, 100}

\* the description is one some text has
WellFormed(r) ==
    /\ (~r.hasScore \/ ~r.scoreOk) => r.score = 0
    /\ ~r.hasScore => r.scoreOk
    /\ r.hasVerdict <=> r.verdict # ""
    /\ r.json # "object" => (~r.hasScore /\ ~r.hasVerdict)
    \* a verdict string is part of the text the substring tests read
    /\ (r.hasVerdict /\ StripLower(r.verdict) = "true") => r.hasTrue
    /\ (r.hasVerdict /\ StripLower(r.verdict) = "false") => r.hasFalse
    \* a score between 0 and 1 is a number the scan matches
    /\ (r.hasScore /\ r.scoreOk /\ r.score <= 100) => r.num # NoMatch
    \* a JSON scalar is one of true, false, null or a number
    /\ r.json = "scalar" =>
          /\ ~(r.hasTrue /\ r.hasFalse)
          /\ (r.hasTrue \/ r.hasFalse) => r.num = NoMatch

Responses ==
    {r \in [json : JsonKinds, hasScore : BOOLEAN, score : ScoreValues,
            scoreOk : BOOLEAN, hasVerdict : BOOLEAN,
            verdict : VerdictValues \cup {""},
            hasTrue : BOOLEAN, hasFalse : BOOLEAN, num : NumValues] :
        WellFormed(r)}

InitParse ==
    /\ pool = IdlePool
    /\ impl \in {"service", "endpoint"}
    /\ serpSettable = (impl = "service")
    /\ raw \in {<<r>> : r \in Responses}
    /\ parsed = <<>>
    /\ variant = "" /\ msgs = <<>> /\ curve = <<>> /\ seen = <<>>
    /\ llm = [extract_model |-> RunModel, classify_model |-> RunModel]
    /\ serp = [research_model |-> RunModel, summary_model |-> RunModel]
    /\ runPc = "pool" /\ runError = ""
    /\ use_external = FALSE /\ output = "score" /\ iterations = 1
    /\ df = <<>> /\ rows = <<>> /\ order = <<>>
    /\ results = <<>>
    /\ summary = <<>>
    /\ store = [doc |-> <<>>, results |-> <<>>]
    /\ csvRemoved = FALSE
    /\ callModels = {RunModel}
    /\ otherRun = FALSE

\* pred, sc = self._parse_output(raw)
ParseService ==
    /\ impl = "service"
    /\ raw # <<>> /\ parsed = <<>>
    /\ parsed' = <<_parse_output(raw[1])>>
    /\ UNCHANGED <<deployVars, raw, sideVars, pool, llm, serp, runPc, runError, paramVars,
                   rowVars, endVars, otherRun>>

\* the parse block of classify_row
ParseEndpoint ==
    /\ impl = "endpoint"
    /\ raw # <<>> /\ parsed = <<>>
    /\ parsed' = <<endpoint_parse(raw[1])>>
    /\ UNCHANGED <<deployVars, raw, sideVars, pool, llm, serp, runPc, runError, paramVars,
                   rowVars, endVars, otherRun>>

NextParse == ParseService \/ ParseEndpoint

SpecParse == InitParse /\ [][NextParse]_vars

\* ------------------------------------------------------ the two-row scenario
(* BenchmarkService.run on the dataset of the end-to-end scenarios: two     *)
(* rows labelled 5 and 2, three iterations, output_type "score", no         *)
(* evidence.  The state is the one run is in when it has submitted both     *)
(* rows; the workers, the collection and the save go on from there.         *)
ScenarioLabels == <<5, 2>>

InitScenario ==
    /\ pool = IdlePool
    /\ raw = <<>> /\ parsed = <<>>
    /\ variant = "" /\ msgs = <<>> /\ curve = <<>> /\ seen = <<>>
    /\ impl = "service" /\ serpSettable = TRUE
    /\ llm = [extract_model |-> RunModel, classify_model |-> RunModel]
    /\ serp = [research_model |-> RunModel, summary_model |-> RunModel]
    /\ runPc = "pool" /\ runError = ""
    /\ use_external = FALSE /\ output = "score" /\ iterations = 3
    /\ df = [k \in 1..Len(ScenarioLabels) |->
               [blank |-> FALSE, nan |-> FALSE, label |-> ScenarioLabels[k]]]
    /\ rows = [k \in 1..Len(ScenarioLabels) |-> QueuedRow]
    /\ order = <<>>
    /\ results = <<>>
    /\ summary = <<>>
    /\ store = [doc |-> <<>>, results |-> <<>>]
    /\ csvRemoved = FALSE
    /\ callModels = {}
    /\ otherRun = FALSE

NextScenario ==
    \/ \E r \in RowIds : TakeRow(r)
    \/ \E r \in RowIds : ExtractReturn(r)
    \/ \E r \in RowIds : ClassifyReturn(r)
    \/ Collect
    \/ SaveDoc
    \/ SaveBatch

SpecScenario == InitScenario /\ [][NextScenario]_vars

\* ------------------------------------------------ the prompt builder on its own
(* LLMManager.build_messages as a function of (use_external,               *)
(* prompt_variant, output_type).  A returned prompt is described by the     *)
(* roles of its messages and by the template that was chosen.               *)
PromptVariants == {"", "default", "short", "long", "medium"}
PromptOutputs ==
    {"binary", "score", "binary_expl", "score_expl", "detailed", "", "bogus"}

\* variant = prompt_variant or "long", then the test variant == "short"
TemplateLength(prompt_variant) ==
    IF prompt_variant = "short" THEN "short" ELSE "long"

build_messages(ext, prompt_variant, output_type) ==
    IF output_type \in SupportedOutputs
    THEN [exc |-> "", roles |-> <<"system", "user">>,
          template |-> <<ext, TemplateLength(prompt_variant), output_type>>]
    ELSE [exc |-> "ValueError", roles |-> <<>>,
          template |-> <<ext, TemplateLength(prompt_variant), output_type>>]

InitPrompt ==
    /\ pool = IdlePool
    /\ raw = <<>> /\ parsed = <<>>
    /\ variant \in PromptVariants
    /\ msgs = <<>> /\ curve = <<>> /\ seen = <<>>
    /\ impl \in {"service", "endpoint"}
    /\ serpSettable = (impl = "service")
    /\ llm = [extract_model |-> RunModel, classify_model |-> RunModel]
    /\ serp = [research_model |-> RunModel, summary_model |-> RunModel]
    /\ runPc = "pool" /\ runError = ""
    /\ use_external \in BOOLEAN
    /\ output \in PromptOutputs
    /\ iterations = 1
    /\ df = <<>> /\ rows = <<>> /\ order = <<>>
    /\ results = <<>>
    /\ summary = <<>>
    /\ store = [doc |-> <<>>, results |-> <<>>]
    /\ csvRemoved = FALSE
    /\ callModels = {RunModel}
    /\ otherRun = FALSE

\* msgs = self.classifier.build_messages(text, articles, use_external,
\* variant, output)
BuildMessages ==
    /\ msgs = <<>>
    /\ msgs' = <<build_messages(use_external, variant, output)>>
    /\ UNCHANGED <<deployVars, parseVars, variant, curve, seen, pool, llm, serp,
                   runPc, runError, paramVars, rowVars, endVars, otherRun>>

NextPrompt == BuildMessages

SpecPrompt == InitPrompt /\ [][NextPrompt]_vars

\* ------------------------------------------------- a reader of the saved job
(* get_benchmark makes two reads of the store: the summary document, then   *)
(* the stream of the results collection.  The save of the job may take its  *)
(* two writes before, between or after them.                                *)
\* snap = doc_ref.get(); 404 when the document does not exist
GetBenchmarkDoc ==
    /\ seen = <<>>
    /\ seen' = IF store.doc = <<>>
               THEN <<[pc |-> "returned", status |-> 404, doc |-> <<>>,
                       results |-> <<>>]>>
               ELSE <<[pc |-> "doc", status |-> 200, doc |-> store.doc,
                       results |-> <<>>]>>
    /\ UNCHANGED <<deployVars, parseVars, variant, msgs, curve, pool, llm, serp,
                   runPc, runError, paramVars, rowVars, endVars, otherRun>>

\* for r_snap in doc_ref.collection("results").stream(), then the response
GetBenchmarkResults ==
    /\ seen # <<>> /\ seen[1].pc = "doc"
    /\ seen' = <<[seen[1] EXCEPT !.pc = "returned", !.results = store.results]>>
    /\ UNCHANGED <<deployVars, parseVars, variant, msgs, curve, pool, llm, serp,
                   runPc, runError, paramVars, rowVars, endVars, otherRun>>

\* one job, and one get_benchmark request for it at any time
NextRead == Next \/ GetBenchmarkDoc \/ GetBenchmarkResults

SpecRead == Init /\ [][NextRead]_vars

\* -------------------------------------------------- the curves of PlotService
(* PlotService reads the results collection of a saved benchmark and feeds  *)
(* (label, score) pairs to roc_curve and precision_recall_curve.  A pair is *)
(* <<label, score>> with the score in hundredths.                           *)
BoolInt(b) == IF b THEN 1 ELSE 0

\* generate_plots: one pair per score, then 1 - y and 1 - s
SinglePairs(res) ==
    [k \in 1..Len(FlatScores(res)) |->
        <<1 - BoolInt(FlatGold(res)[k]), 100 - FlatScores(res)[k]>>]

\* generate_comparison_plots: r["scores"][0] if r["scores"] else 0.0
ComparisonPairs(res) ==
    [k \in 1..Len(res) |->
        <<1 - BoolInt(res[k].gold_binary),
          100 - (IF res[k].scores # <<>> THEN res[k].scores[1] ELSE 0)>>]

\* _load_results raises KeyError when the collection has no document
PlotOf(mode, res) ==
    IF res = <<>>
    THEN [mode |-> mode, exc |-> "KeyError", pairs |-> <<>>]
    ELSE [mode |-> mode, exc |-> "",
          pairs |-> IF mode = "single" THEN SinglePairs(res)
                    ELSE ComparisonPairs(res)]

\* a BenchmarkService.run has saved its summary and its results
InitPlot ==
    /\ pool = IdlePool
    /\ raw = <<>> /\ parsed = <<>>
    /\ variant = "" /\ msgs = <<>> /\ curve = <<>> /\ seen = <<>>
    /\ impl = "service" /\ serpSettable = TRUE
    /\ llm = [extract_model |-> RunModel, classify_model |-> RunModel]
    /\ serp = [research_model |-> RunModel, summary_model |-> RunModel]
    /\ runPc = "done" /\ runError = ""
    /\ use_external = FALSE
    /\ output \in MetricPolicies
    /\ iterations \in 1..MaxIters
    /\ results \in ResultLists(iterations)
    /\ df = <<>> /\ rows = <<>> /\ order = <<>>
    /\ summary = <<_compute_metrics(results, iterations, output)>>
    /\ store = [doc |-> <<[params |-> Params, metrics |-> summary[1]]>>,
                results |-> results]
    /\ csvRemoved = TRUE
    /\ callModels = {RunModel}
    /\ otherRun = FALSE

GeneratePlots ==
    /\ curve = <<>>
    /\ curve' = <<PlotOf("single", store.results)>>
    /\ UNCHANGED <<deployVars, parseVars, variant, msgs, seen, pool, llm, serp,
                   runPc, runError, paramVars, rowVars, endVars, otherRun>>

GenerateComparisonPlots ==
    /\ curve = <<>>
    /\ curve' = <<PlotOf("comparison", store.results)>>
    /\ UNCHANGED <<deployVars, parseVars, variant, msgs, seen, pool, llm, serp,
                   runPc, runError, paramVars, rowVars, endVars, otherRun>>

NextPlot == GeneratePlots \/ GenerateComparisonPlots

SpecPlot == InitPlot /\ [][NextPlot]_vars

\* ================================================================== claims
Collecting == runPc \in {"computed", "docSet", "done"}

\* C1: in BenchmarkService.run a failure confined to one row (extraction,
\* evidence fetch, a model call) never leaves run: run is never ended by a
\* row's exception.
C1_RowFailureContained == impl = "service" => runError # "RowError"

\* C2: every query-extraction and classification call of one
\* BenchmarkService.run is made with the model passed to that run, also when
\* a second run with another model starts on the same classifier meanwhile.
C2_ModelFixedDuringRun == impl = "service" => callModels \subseteq {RunModel}

\* C3: during a batch of N rows the rows being processed at the same time,
\* and the outbound calls outstanding, never exceed min(32, N) whatever the
\* iteration count; a worker has at most one call out, so the iterations of
\* a row are never in flight together.
C3_PoolBound ==
    /\ PoolBusy <= Min(fixed_cap, pool.n)
    /\ pool.calls <= Min(fixed_cap, pool.n)
    /\ pool.calls <= PoolBusy
    /\ pool.queued + PoolBusy + pool.done = pool.n

\* a batch larger than the cap with every worker busy on the model call of
\* the second iteration or another call, and rows still waiting
C3_Witness ==
    /\ pool.n > fixed_cap /\ pool.iters = 2
    /\ PoolBusy = fixed_cap /\ pool.queued > 0
    /\ pool.classify[2] > 0

\* K of C4: the rows whose query extraction failed
ExtractionFailed == {r \in RowIds : rows[r].ret = "none"}

\* no call other than a query extraction failed in the batch
NoOtherFailure ==
    \A r \in RowIds :
        /\ rows[r].ret # "raised"
        /\ rows[r].ret = "result" =>
             /\ rows[r].succeeded = iterations
             /\ use_external => rows[r].articles = "block"

C5_ZeroSuccessRowDropped ==
    /\ \A k \in 1..Len(results) : results[k].scores # <<>>
    /\ \A k \in 1..Len(store.results) : store.results[k].scores # <<>>

\* C6: a failed model call costs its iteration only: a row that got past
\* extraction, fetch and prompt building makes its model calls in the order
\* 0, 1, ..., makes exactly `iterations` of them by the time it returns,
\* and its three lists hold one entry per call that succeeded.
C6_EveryIterationAttempted ==
    \A r \in RowIds :
        (rows[r].builds > 0 /\ rows[r].ret # "raised") =>
            /\ \A k \in 1..Len(rows[r].calls) : rows[r].calls[k] = k - 1
            /\ rows[r].pc = "done" =>
                 (rows[r].ret = "result" /\ Len(rows[r].calls) = iterations)
            /\ Len(rows[r].preds) = rows[r].succeeded
            /\ Len(rows[r].scores) = rows[r].succeeded
            /\ Len(rows[r].corrects) = rows[r].succeeded

\* a returned row of a two-iteration run of which one model call failed
C6_Witness ==
    \E r \in RowIds :
        /\ rows[r].pc = "done" /\ rows[r].ret = "result"
        /\ iterations = 2 /\ rows[r].calls = <<0, 1>>
        /\ rows[r].succeeded = 1

\* C7: when query extraction fails the row returns null after exactly one
\* extraction attempt, and no evidence fetch, prompt build or model call is
\* made for it.
C7_ExtractionFailureForfeitsRow ==
    \A r \in RowIds :
        rows[r].ret = "none" =>
            /\ rows[r].pc = "done"
            /\ rows[r].extracts = 1
            /\ rows[r].fetches = 0 /\ rows[r].builds = 0
            /\ rows[r].calls = <<>> /\ rows[r].succeeded = 0
            /\ rows[r].preds = <<>>

\* a row that returned null while another row of the batch went on
C7_Witness ==
    \E r, q \in RowIds :
        /\ rows[r].ret = "none"
        /\ rows[q].ret = "result" /\ rows[q].succeeded > 0

\* C8: under both aggregation policies the confusion matrix of
\* _compute_metrics has TP + FP + FN + TN = total_predictions.
C8_CellsSumToTotal ==
    (impl = "service" /\ summary # <<>>) =>
        LET cm == summary[1].confusion_matrix
        IN  cm.TP + cm.FP + cm.FN + cm.TN = summary[1].total_predictions

\* a per-score summary over four attempts, one in every cell
C8_Witness ==
    /\ impl = "service" /\ summary # <<>> /\ output = "score"
    /\ summary[1].total_predictions = 4
    /\ summary[1].confusion_matrix = [TP |-> 1, FN |-> 1, FP |-> 1, TN |-> 1]

\* the (gold, predicted) pairs the policy of the run feeds the matrix,
\* counted from the collected results
PairCount(g, p) ==
    IF output \in {"score", "detailed"}
    THEN Cardinality({kj \in (1..Len(results)) \X (1..MaxCalls) :
            /\ kj[2] <= Len(results[kj[1]].scores)
            /\ results[kj[1]].gold_binary = g
            /\ (results[kj[1]].scores[kj[2]] >= ScoreThreshold) = p})
    ELSE Cardinality({k \in 1..Len(results) :
            /\ results[k].gold_binary = g
            /\ MajorityVote(results[k]) = p})

\* C9: the positive class of _compute_metrics is false/fake: TP counts
\* gold=false predicted false, FN gold=false predicted true, FP gold=true
\* predicted false, TN gold=true predicted true; gold [true, false] with
\* both rows voted true gives {TP:0, FN:1, FP:0, TN:1} and accuracy 0.5.
C9_FakeIsPositive ==
    (impl = "service" /\ summary # <<>>) =>
        LET cm == summary[1].confusion_matrix
        IN  /\ cm.TP = PairCount(FALSE, FALSE)
            /\ cm.FN = PairCount(FALSE, TRUE)
            /\ cm.FP = PairCount(TRUE, FALSE)
            /\ cm.TN = PairCount(TRUE, TRUE)
            /\ ( /\ output = "binary" /\ Len(results) = 2
                 /\ results[1].gold_binary # results[2].gold_binary
                 /\ MajorityVote(results[1]) /\ MajorityVote(results[2]) )
               => /\ cm = [TP |-> 0, FN |-> 1, FP |-> 0, TN |-> 1]
                  /\ SameFrac(summary[1].accuracy, [num |-> 1, den |-> 2])

\* scenario A: labels [5, 2] map to gold [true, false], row 1 answers
\* {"score":0.9}, row 2 {"verdict":"True"}, one iteration, majority vote
C9_Witness ==
    /\ impl = "service" /\ summary # <<>> /\ output = "binary"
    /\ iterations = 1 /\ Len(results) = 2
    /\ results[1].gold_binary /\ results[1].scores = <<90>>
    /\ ~results[2].gold_binary /\ results[2].predictions = <<TRUE>>
    /\ results[2].scores = <<0>>
    /\ summary[1].confusion_matrix = [TP |-> 0, FN |-> 1, FP |-> 0, TN |-> 1]

\* C10: with iterations = 1 the accuracy of _compute_metrics under the
\* per-score policy equals its accuracy under the majority-vote policy on
\* the same RowResults, whatever the model answered for each row.
C10_PoliciesAgreeOnOneIteration ==
    ( /\ impl = "service" /\ Collecting /\ iterations = 1
      /\ \A k \in 1..Len(results) : Len(results[k].scores) = 1 ) =>
        SameFrac(_compute_metrics(results, iterations, "score").accuracy,
                 _compute_metrics(results, iterations, "binary").accuracy)

\* the rows among the collected results whose model call of iteration it
\* returned, and those of them whose prediction of that iteration was right
SucceededAt(it) ==
    {k \in 1..Len(results) :
        \E j \in 1..Len(rows[results[k].statement].okIters) :
            rows[results[k].statement].okIters[j] = it}

CorrectAt(it) ==
    {k \in 1..Len(results) :
        \E j \in 1..Len(rows[results[k].statement].okIters) :
            /\ rows[results[k].statement].okIters[j] = it
            /\ results[k].correctness[j]}

\* C11: iteration_accuracy has one value per iteration index, and slot i is
\* the fraction of correct attempts among exactly the rows whose model call
\* of iteration i succeeded, whatever iterations failed.
C11_SlotIsIterationIndex ==
    (impl = "service" /\ summary # <<>>) =>
        /\ Len(summary[1].iteration_accuracy) = iterations
        /\ \A it \in 0..(iterations - 1) :
             SameFrac(summary[1].iteration_accuracy[it + 1],
                      Frac(Cardinality(CorrectAt(it)),
                           Cardinality(SucceededAt(it))))

\* C12: whatever RowResults the batch produced, the ten bin counts of
\* score_histogram add up to the number of individual scores in them, under
\* both aggregation policies.
C12_HistogramCountsEveryScore ==
    (impl = "service" /\ summary # <<>>) =>
        SumSeq(summary[1].score_histogram) = Len(FlatScores(results))

\* C13: for a JSON object with a verdict member and no score member the
\* output parser returns predicted = (trimmed, lowercased verdict = "true")
\* and the score 1.0 when predicted is true, 0.0 when it is false.
C13_VerdictOnlyScoreFollowsVerdict ==
    ( /\ parsed # <<>>
      /\ raw[1].json = "object" /\ ~raw[1].hasScore
      /\ raw[1].hasVerdict /\ raw[1].verdict # "nonstring" ) =>
        /\ parsed[1].pred = (StripLower(raw[1].verdict) = "true")
        /\ parsed[1].score = (IF parsed[1].pred THEN 100 ELSE 0)

\* C14: for a JSON object with a numeric score member the output parser
\* returns exactly that score and predicted = (score >= 0.5), whatever
\* verdict member the object has as well.
C14_ScoreWins ==
    ( /\ parsed # <<>>
      /\ raw[1].json = "object" /\ raw[1].hasScore /\ raw[1].scoreOk ) =>
        /\ parsed[1].score = raw[1].score
        /\ parsed[1].pred = (raw[1].score >= ScoreThreshold)

\* C15: _parse_output never fails: for a JSON object, JSON that is not an
\* object, a non-numeric score, a non-string verdict and non-JSON text it
\* returns a (bool, float) pair, and (false, 0.0) for text in which neither
\* a boolean nor a number is found.
C15_ParseOutputNeverFails ==
    (impl = "service" /\ parsed # <<>>) =>
        /\ parsed[1].exc = ""
        /\ parsed[1].pred \in BOOLEAN
        /\ parsed[1].score \in Int
        /\ ( /\ raw[1].json = "invalid"
             /\ ~raw[1].hasTrue /\ ~raw[1].hasFalse
             /\ raw[1].num = NoMatch ) =>
               (~parsed[1].pred /\ parsed[1].score = 0)

\* an object whose score float() rejects, parsed by the text heuristic
C15_Witness ==
    /\ impl = "service" /\ parsed # <<>>
    /\ raw[1].json = "object" /\ raw[1].hasScore /\ ~raw[1].scoreOk
    /\ raw[1].num = 30
    /\ parsed[1] = [exc |-> "", pred |-> FALSE, score |-> 30]

\* the substring tests decide the response
OnlyTrue(r) == r.hasTrue /\ ~r.hasFalse
OnlyFalse(r) == r.hasFalse /\ ~r.hasTrue

\* C16 as stated: for every response whose lowercased text contains "true"
\* and not "false" _parse_output returns (true, 1.0), and (false, 0.0) for
\* every response that contains "false" and not "true".
C16_SubstringDecidesEveryResponse ==
    (impl = "service" /\ parsed # <<>>) =>
        /\ OnlyTrue(raw[1]) => (parsed[1].pred /\ parsed[1].score = 100)
        /\ OnlyFalse(raw[1]) => (~parsed[1].pred /\ parsed[1].score = 0)

\* C16 amended: for every response that is not a JSON object and whose
\* lowercased text contains "true" and not "false" _parse_output returns
\* (true, 1.0), and (false, 0.0) when it contains "false" and not "true".
C16_SubstringDecidesNonObjects ==
    (impl = "service" /\ parsed # <<>> /\ raw[1].json # "object") =>
        /\ OnlyTrue(raw[1]) => (parsed[1].pred /\ parsed[1].score = 100)
        /\ OnlyFalse(raw[1]) => (~parsed[1].pred /\ parsed[1].score = 0)

\* a text such as "true, 0.3" parsed to (true, 1.0)
C16_Witness ==
    /\ impl = "service" /\ parsed # <<>>
    /\ raw[1].json = "invalid" /\ OnlyTrue(raw[1]) /\ raw[1].num = 30
    /\ parsed[1].pred /\ parsed[1].score = 100

\* the three lists have one length, and it is at most the iteration count
ListsAligned(preds, scores, corrects) ==
    /\ Len(preds) = Len(scores)
    /\ Len(scores) = Len(corrects)
    /\ Len(preds) <= iterations

\* C17: in every state of a row's iteration loop and in every returned
\* RowResult, predictions, scores and correctness have the same length, and
\* that length is at most the configured iteration count.
C17_ListsAlignedAndBounded ==
    /\ \A r \in RowIds :
         ListsAligned(rows[r].preds, rows[r].scores, rows[r].corrects)
    /\ \A k \in 1..Len(results) :
         ListsAligned(results[k].predictions, results[k].scores,
                      results[k].correctness)
    /\ \A k \in 1..Len(store.results) :
         ListsAligned(store.results[k].predictions, store.results[k].scores,
                      store.results[k].correctness)

\* a row inside its loop, one attempt recorded and the second call out,
\* beside a row that has returned with both attempts recorded
C17_Witness ==
    \E r, q \in RowIds :
        /\ iterations = 2
        /\ rows[r].pc = "classify" /\ rows[r].i = 1 /\ Len(rows[r].scores) = 1
        /\ rows[q].ret = "result" /\ Len(rows[q].scores) = 2

\* C18: a job that ends with no usable row, because the cleaned dataset is
\* empty or because every row failed, persists no summary document.
C18_NoSummaryWithoutUsableRows ==
    store.doc # <<>> => Len(results) > 0

\* C19: when the prompt configuration is one build_messages raises for, the
\* run aborts before any query extraction, evidence fetch or model call has
\* been made for any row.
C19_InvalidConfigAbortsBeforeWork ==
    (runPc # "idle" /\ output \notin SupportedOutputs) =>
        \A r \in RowIds :
            /\ rows[r].extracts = 0 /\ rows[r].fetches = 0
            /\ rows[r].calls = <<>>

\* C20: a store write that fails after the metrics were computed is logged
\* and contained: the run does not raise because of it and the temporary
\* CSV file is still removed.
C20_StoreFailureContained ==
    /\ runError # "StoreError"
    /\ (summary # <<>> /\ runPc \in {"done", "raised"}) => csvRemoved

\* C21: a BenchmarkService.run in which no collaborator call fails runs to
\* completion: it does not end with an exception other than a failed row or
\* a failed store write, and its summary document is written only after
\* every dispatched row has finished.
C21_RunCompletes ==
    impl = "service" =>
        /\ runPc = "raised" => runError \in {"RowError", "StoreError"}
        /\ store.doc # <<>> => AllDone

\* C22: per-score policy, three iterations, labels [5, 2], row 1 always
\* answered {"score":0.9} and row 2 always {"verdict":"True"}: the summary
\* has total_predictions = 6 and accuracy 3/6, only the three attempts of
\* row 1 being correct.
C22_ScenarioB ==
    ( /\ impl = "service" /\ summary # <<>>
      /\ output = "score" /\ iterations = 3 /\ N = 2
      /\ df[1].label = 5 /\ df[2].label = 2
      /\ rows[1].resps = <<"score09", "score09", "score09">>
      /\ rows[2].resps = <<"verdictTrue", "verdictTrue", "verdictTrue">> ) =>
        /\ summary[1].total_predictions = 6
        /\ SameFrac(summary[1].accuracy, [num |-> 3, den |-> 6])

\* C23: in the inline aggregation of run_benchmark_job the persisted
\* confusion matrix has TN + FP + FN + TP = total_predictions.
C23_EndpointCellsSumToTotal ==
    (impl = "endpoint" /\ store.doc # <<>>) =>
        LET m == store.doc[1].metrics
        IN  m.confusion_matrix.TN + m.confusion_matrix.FP
              + m.confusion_matrix.FN + m.confusion_matrix.TP
            = m.total_predictions

\* C24: a response that parses as a JSON object with neither a score nor a
\* verdict member is parsed by the text heuristic (substring tests, then the
\* number scan) exactly as a response that is not JSON.
C24_NeitherFieldFallsThrough ==
    ( /\ parsed # <<>>
      /\ raw[1].json = "object" /\ ~raw[1].hasScore /\ ~raw[1].hasVerdict ) =>
        /\ parsed[1].pred = Heuristic(raw[1]).pred
        /\ parsed[1].score = Heuristic(raw[1]).score

\* strictly more than half of the recorded predictions of result k are true
StrictMajority(k) ==
    2 * Cardinality({j \in 1..Len(results[k].predictions) :
                       results[k].predictions[j]})
      > Len(results[k].predictions)

VotePairs(g, p) ==
    Cardinality({k \in 1..Len(results) :
                   results[k].gold_binary = g /\ StrictMajority(k) = p})

\* C25: under the majority-vote policy _compute_metrics counts exactly one
\* (gold, predicted) pair per RowResult, predicted being true iff strictly
\* more than half of the row's recorded predictions are true; a tie is false.
C25_StrictMajorityPerRow ==
    (impl = "service" /\ summary # <<>> /\ output = "binary") =>
        /\ summary[1].total_predictions = Len(results)
        /\ summary[1].confusion_matrix =
              [TP |-> VotePairs(FALSE, FALSE), FN |-> VotePairs(FALSE, TRUE),
               FP |-> VotePairs(TRUE, FALSE), TN |-> VotePairs(TRUE, TRUE)]

\* two rows of gold true, one voted true twice and one tied one to one
C25_Witness ==
    /\ impl = "service" /\ summary # <<>> /\ output = "binary"
    /\ Len(results) = 2
    /\ results[1].gold_binary /\ results[1].predictions = <<TRUE, TRUE>>
    /\ results[2].gold_binary /\ results[2].predictions = <<TRUE, FALSE>>
    /\ summary[1].confusion_matrix = [TP |-> 0, FN |-> 0, FP |-> 1, TN |-> 1]

\* C26: every score _parse_output returns, and so every score appended to a
\* RowResult, lies in [0, 1], whatever the raw model response.
C26_ScoreInUnitInterval ==
    (impl = "service" /\ parsed # <<>>) =>
        (parsed[1].score >= 0 /\ parsed[1].score <= 100)

\* C27: build_messages returns a [system, user] pair for every combination
\* of use_external, variant in {default, short} and output_type in {binary,
\* score, binary_expl, score_expl, detailed}, and raises a configuration
\* error for every variant or output_type outside those sets.
C27_PromptTable ==
    msgs # <<>> =>
        IF /\ variant \in {"default", "short"}
           /\ output \in {"binary", "score", "binary_expl", "score_expl",
                           "detailed"}
        THEN msgs[1].exc = "" /\ msgs[1].roles = <<"system", "user">>
        ELSE msgs[1].exc # ""

\* the (row, attempt) positions of the saved results, in flattening order
RECURSIVE AttemptIndex(_)
AttemptIndex(res) ==
    IF res = <<>> THEN <<>>
    ELSE AttemptIndex(Front(res))
         \o [j \in 1..Len(Last(res).scores) |-> <<Len(res), j>>]

\* C28: every (label, score) pair PlotService feeds to the curves is
\* (1 - gold_binary, 1 - s) for a score s recorded for that row: one pair
\* per recorded attempt in generate_plots, and the first recorded score of
\* each row in generate_comparison_plots.
C28_CurvePairsAreRecordedScores ==
    (curve # <<>> /\ curve[1].exc = "") =>
        LET res == store.results
            pairs == curve[1].pairs
            at == AttemptIndex(res)
        IN  IF curve[1].mode = "single"
            THEN /\ Len(pairs) = Len(at)
                 /\ \A k \in 1..Len(pairs) :
                      pairs[k] = <<1 - BoolInt(res[at[k][1]].gold_binary),
                                   100 - res[at[k][1]].scores[at[k][2]]>>
            ELSE /\ Len(pairs) = Len(res)
                 /\ \A k \in 1..Len(pairs) :
                      /\ res[k].scores # <<>>
                      /\ pairs[k] = <<1 - BoolInt(res[k].gold_binary),
                                      100 - res[k].scores[1]>>

\* the row result r carries the gold label of its dataset row and, for each
\* recorded attempt, a correctness flag that compares the prediction to it
GoldFixed(statement, gold, preds, corrects) ==
    /\ gold = (df[statement].label >= LabelThreshold)
    /\ Len(corrects) = Len(preds)
    /\ \A j \in 1..Len(preds) : corrects[j] = (preds[j] = gold)

\* C29: for every RowResult gold_binary = (label >= 4) for the label read at
\* job start and correctness[i] = (predictions[i] = gold_binary) for every
\* recorded attempt; gold_binary is set before the first collaborator call
\* of the row and no later step of the row, of the collection or of the save
\* changes it.
C29_GoldBinaryFixed ==
    /\ \A r \in RowIds :
         (rows[r].extracts > 0 /\ rows[r].ret # "raised") =>
             GoldFixed(r, rows[r].gold, rows[r].preds, rows[r].corrects)
    /\ \A k \in 1..Len(results) :
         GoldFixed(results[k].statement, results[k].gold_binary,
                   results[k].predictions, results[k].correctness)
    /\ \A k \in 1..Len(store.results) :
         GoldFixed(store.results[k].statement, store.results[k].gold_binary,
                   store.results[k].predictions, store.results[k].correctness)

\* a saved batch with a row labelled 4 and a row labelled 3, each with a
\* recorded attempt, one of them judged correct and one of them not
C29_Witness ==
    /\ runPc = "done"
    /\ \E k, m \in 1..Len(store.results) :
         /\ df[store.results[k].statement].label = LabelThreshold
         /\ store.results[k].gold_binary
         /\ df[store.results[m].statement].label = LabelThreshold - 1
         /\ ~store.results[m].gold_binary
         /\ store.results[k].correctness # <<>>
         /\ store.results[m].correctness # <<>>
         /\ store.results[k].correctness[1] # store.results[m].correctness[1]

\* C30: a reader that observes the summary document of a job observes the
\* job's row results as well: the summary is never visible in the store
\* while the results collection of a job that has results is still empty,
\* and no get_benchmark response carries the summary with an empty list of
\* results for such a job.
C30_SummaryVisibleWithResults ==
    results # <<>> =>
        /\ store.doc # <<>> => store.results # <<>>
        /\ (seen # <<>> /\ seen[1].pc = "returned" /\ seen[1].status = 200)
              => seen[1].results # <<>>

====
